---- MODULE Spec2Model ----
(***************************************************************************)
(* A model of the Chess 2 engine of sunfish.py: the Position value object  *)
(* (genMoves, isPieceInvulnerable, rotate, move, value), the game loop     *)
(* that applies generated moves, and the MTD-bi search (bound, search)     *)
(* with its process-wide transposition table.                              *)
(*                                                                         *)
(* Squares are the source's indices 0..119 of the 120-character board; a   *)
(* board is a function on 0..119 whose values are one-character strings.   *)
(* Python tuples that the source indexes from 0 (pst rows, wc, bc) are     *)
(* TLA+ tuples indexed from 1: the source's t[k] is t[k+1] here.           *)
(***************************************************************************)
EXTENDS Integers, Sequences, FiniteSets, TLC

(***************************************************************************)
(* Constants of the source.                                                *)
(***************************************************************************)
MATE_VALUE == 30000
MIDLINE_VALUE == 60000

A1 == 91
H1 == 98
A8 == 21
H8 == 28

N == -10
E == 1
S == 10
W == -1
H == 0

Abs(x) == IF x < 0 THEN -x ELSE x

KnightJumps == <<2*N+E, N+2*E, S+2*E, 2*S+E, 2*S+W, S+2*W, N+2*W, 2*N+W>>
Compass == <<N, E, S, W, N+E, S+E, S+W, N+W>>
Empowered == Compass \o KnightJumps

directions ==
  [ P |-> <<N, 2*N, N+W, N+E>>,
    L |-> Compass,
    B |-> <<N+E, S+E, S+W, N+W>>,
    X |-> Empowered,
    T |-> <<N+E, S+E, S+W, N+W, (N+E)*2, (S+E)*2, (S+W)*2, (N+W)*2>>,
    N |-> KnightJumps,
    Y |-> Empowered,
    H |-> KnightJumps,
    R |-> <<N, E, S, W>>,
    Z |-> Empowered,
    G |-> <<
        21, 22, 23, 24, 25, 26, 27, 28,
        31, 32, 33, 34, 35, 36, 37, 38,
        41, 42, 43, 44, 45, 46, 47, 48,
        51, 52, 53, 54, 55, 56, 57, 58,
        61, 62, 63, 64, 65, 66, 67, 68,
        71, 72, 73, 74, 75, 76, 77, 78,
        81, 82, 83, 84, 85, 86, 87, 88 >>,
    E |-> <<N, E, S, W>>,
    Q |-> Compass,
    M |-> Compass,
    O |-> Compass,
    A |-> <<
        31, 32, 33, 34, 35, 36, 37, 38,
        41, 42, 43, 44, 45, 46, 47, 48,
        51, 52, 53, 54, 55, 56, 57, 58,
        61, 62, 63, 64, 65, 66, 67, 68,
        71, 72, 73, 74, 75, 76, 77, 78,
        81, 82, 83, 84, 85, 86, 87, 88 >>,
    U |-> <<N, E, S, W, H, N+E, S+E, S+W, N+W>>,
    J |-> <<N, E, S, W>> \o KnightJumps,
    K |-> Compass,
    W |-> <<N, E, S, W, H, N+E, S+E, S+W, N+W>>,
    C |-> Compass ]

\* Piece-square tables, verbatim (the Reaper's table has 110 entries).
pst ==
  [ P |-> <<
        0, 0, 0, 0, 0, 0, 0, 0, 0, 0,
        0, 0, 0, 0, 0, 0, 0, 0, 0, 0,
        0, 198, 198, 198, 198, 198, 198, 198, 198, 0,
        0, 178, 198, 198, 198, 198, 198, 198, 178, 0,
        0, 178, 198, 198, 198, 198, 198, 198, 178, 0,
        0, 178, 208, 208, 208, 208, 208, 208, 178, 0,
        0, 178, 238, 238, 238, 238, 238, 238, 178, 0,
        0, 178, 218, 218, 218, 218, 218, 218, 178, 0,
        0, 178, 198, 198, 198, 198, 198, 198, 178, 0,
        0, 198, 198, 198, 198, 198, 198, 198, 198, 0,
        0, 0, 0, 0, 0, 0, 0, 0, 0, 0,
        0, 0, 0, 0, 0, 0, 0, 0, 0, 0 >>,
    L |-> <<
        0, 0, 0, 0, 0, 0, 0, 0, 0, 0,
        0, 0, 0, 0, 0, 0, 0, 0, 0, 0,
        0, 198, 198, 198, 198, 198, 198, 198, 198, 0,
        0, 178, 198, 198, 198, 198, 198, 198, 178, 0,
        0, 178, 198, 198, 198, 198, 198, 198, 178, 0,
        0, 178, 198, 208, 218, 218, 208, 198, 178, 0,
        0, 178, 198, 218, 238, 238, 218, 198, 178, 0,
        0, 178, 198, 208, 218, 218, 208, 198, 178, 0,
        0, 178, 198, 198, 198, 198, 198, 198, 178, 0,
        0, 198, 198, 198, 198, 198, 198, 198, 198, 0,
        0, 0, 0, 0, 0, 0, 0, 0, 0, 0,
        0, 0, 0, 0, 0, 0, 0, 0, 0, 0 >>,
    B |-> <<
        0, 0, 0, 0, 0, 0, 0, 0, 0, 0,
        0, 0, 0, 0, 0, 0, 0, 0, 0, 0,
        0, 797, 824, 817, 808, 808, 817, 824, 797, 0,
        0, 814, 841, 834, 825, 825, 834, 841, 814, 0,
        0, 818, 845, 838, 829, 829, 838, 845, 818, 0,
        0, 824, 851, 844, 835, 835, 844, 851, 824, 0,
        0, 827, 854, 847, 838, 838, 847, 854, 827, 0,
        0, 826, 853, 846, 837, 837, 846, 853, 826, 0,
        0, 817, 844, 837, 828, 828, 837, 844, 817, 0,
        0, 792, 819, 812, 803, 803, 812, 819, 792, 0,
        0, 0, 0, 0, 0, 0, 0, 0, 0, 0,
        0, 0, 0, 0, 0, 0, 0, 0, 0, 0 >>,
    X |-> <<
        0, 0, 0, 0, 0, 0, 0, 0, 0, 0,
        0, 0, 0, 0, 0, 0, 0, 0, 0, 0,
        0, 797, 824, 817, 808, 808, 817, 824, 797, 0,
        0, 814, 841, 834, 825, 825, 834, 841, 814, 0,
        0, 818, 845, 838, 829, 829, 838, 845, 818, 0,
        0, 824, 851, 844, 835, 835, 844, 851, 824, 0,
        0, 827, 854, 847, 838, 838, 847, 854, 827, 0,
        0, 826, 853, 846, 837, 837, 846, 853, 826, 0,
        0, 817, 844, 837, 828, 828, 837, 844, 817, 0,
        0, 792, 819, 812, 803, 803, 812, 819, 792, 0,
        0, 0, 0, 0, 0, 0, 0, 0, 0, 0,
        0, 0, 0, 0, 0, 0, 0, 0, 0, 0 >>,
    T |-> <<
        0, 0, 0, 0, 0, 0, 0, 0, 0, 0,
        0, 0, 0, 0, 0, 0, 0, 0, 0, 0,
        0, 797, 824, 817, 808, 808, 817, 824, 797, 0,
        0, 814, 841, 834, 825, 825, 834, 841, 814, 0,
        0, 818, 845, 838, 829, 829, 838, 845, 818, 0,
        0, 824, 851, 844, 835, 835, 844, 851, 824, 0,
        0, 827, 854, 847, 838, 838, 847, 854, 827, 0,
        0, 826, 853, 846, 837, 837, 846, 853, 826, 0,
        0, 817, 844, 837, 828, 828, 837, 844, 817, 0,
        0, 792, 819, 812, 803, 803, 812, 819, 792, 0,
        0, 0, 0, 0, 0, 0, 0, 0, 0, 0,
        0, 0, 0, 0, 0, 0, 0, 0, 0, 0 >>,
    N |-> <<
        0, 0, 0, 0, 0, 0, 0, 0, 0, 0,
        0, 0, 0, 0, 0, 0, 0, 0, 0, 0,
        0, 627, 762, 786, 798, 798, 786, 762, 627, 0,
        0, 763, 798, 822, 834, 834, 822, 798, 763, 0,
        0, 817, 852, 876, 888, 888, 876, 852, 817, 0,
        0, 797, 832, 856, 868, 868, 856, 832, 797, 0,
        0, 799, 834, 858, 870, 870, 858, 834, 799, 0,
        0, 758, 793, 817, 829, 829, 817, 793, 758, 0,
        0, 739, 774, 798, 810, 810, 798, 774, 739, 0,
        0, 683, 718, 742, 754, 754, 742, 718, 683, 0,
        0, 0, 0, 0, 0, 0, 0, 0, 0, 0,
        0, 0, 0, 0, 0, 0, 0, 0, 0, 0 >>,
    Y |-> <<
        0, 0, 0, 0, 0, 0, 0, 0, 0, 0,
        0, 0, 0, 0, 0, 0, 0, 0, 0, 0,
        0, 627, 762, 786, 798, 798, 786, 762, 627, 0,
        0, 763, 798, 822, 834, 834, 822, 798, 763, 0,
        0, 817, 852, 876, 888, 888, 876, 852, 817, 0,
        0, 797, 832, 856, 868, 868, 856, 832, 797, 0,
        0, 799, 834, 858, 870, 870, 858, 834, 799, 0,
        0, 758, 793, 817, 829, 829, 817, 793, 758, 0,
        0, 739, 774, 798, 810, 810, 798, 774, 739, 0,
        0, 683, 718, 742, 754, 754, 742, 718, 683, 0,
        0, 0, 0, 0, 0, 0, 0, 0, 0, 0,
        0, 0, 0, 0, 0, 0, 0, 0, 0, 0 >>,
    H |-> <<
        0, 0, 0, 0, 0, 0, 0, 0, 0, 0,
        0, 0, 0, 0, 0, 0, 0, 0, 0, 0,
        0, 627, 762, 786, 798, 798, 786, 762, 627, 0,
        0, 763, 798, 822, 834, 834, 822, 798, 763, 0,
        0, 817, 852, 876, 888, 888, 876, 852, 817, 0,
        0, 797, 832, 856, 868, 868, 856, 832, 797, 0,
        0, 799, 834, 858, 870, 870, 858, 834, 799, 0,
        0, 758, 793, 817, 829, 829, 817, 793, 758, 0,
        0, 739, 774, 798, 810, 810, 798, 774, 739, 0,
        0, 683, 718, 742, 754, 754, 742, 718, 683, 0,
        0, 0, 0, 0, 0, 0, 0, 0, 0, 0,
        0, 0, 0, 0, 0, 0, 0, 0, 0, 0 >>,
    R |-> <<
        0, 0, 0, 0, 0, 0, 0, 0, 0, 0,
        0, 0, 0, 0, 0, 0, 0, 0, 0, 0,
        0, 1258, 1263, 1268, 1272, 1272, 1268, 1263, 1258, 0,
        0, 1258, 1263, 1268, 1272, 1272, 1268, 1263, 1258, 0,
        0, 1258, 1263, 1268, 1272, 1272, 1268, 1263, 1258, 0,
        0, 1258, 1263, 1268, 1272, 1272, 1268, 1263, 1258, 0,
        0, 1258, 1263, 1268, 1272, 1272, 1268, 1263, 1258, 0,
        0, 1258, 1263, 1268, 1272, 1272, 1268, 1263, 1258, 0,
        0, 1258, 1263, 1268, 1272, 1272, 1268, 1263, 1258, 0,
        0, 1258, 1263, 1268, 1272, 1272, 1268, 1263, 1258, 0,
        0, 0, 0, 0, 0, 0, 0, 0, 0, 0,
        0, 0, 0, 0, 0, 0, 0, 0, 0, 0 >>,
    Z |-> <<
        0, 0, 0, 0, 0, 0, 0, 0, 0, 0,
        0, 0, 0, 0, 0, 0, 0, 0, 0, 0,
        0, 1258, 1263, 1268, 1272, 1272, 1268, 1263, 1258, 0,
        0, 1258, 1263, 1268, 1272, 1272, 1268, 1263, 1258, 0,
        0, 1258, 1263, 1268, 1272, 1272, 1268, 1263, 1258, 0,
        0, 1258, 1263, 1268, 1272, 1272, 1268, 1263, 1258, 0,
        0, 1258, 1263, 1268, 1272, 1272, 1268, 1263, 1258, 0,
        0, 1258, 1263, 1268, 1272, 1272, 1268, 1263, 1258, 0,
        0, 1258, 1263, 1268, 1272, 1272, 1268, 1263, 1258, 0,
        0, 1258, 1263, 1268, 1272, 1272, 1268, 1263, 1258, 0,
        0, 0, 0, 0, 0, 0, 0, 0, 0, 0,
        0, 0, 0, 0, 0, 0, 0, 0, 0, 0 >>,
    G |-> <<
        0, 0, 0, 0, 0, 0, 0, 0, 0, 0,
        0, 0, 0, 0, 0, 0, 0, 0, 0, 0,
        0, 1258, 1263, 1263, 1263, 1263, 1263, 1263, 1258, 0,
        0, 1258, 1263, 1263, 1263, 1263, 1263, 1263, 1258, 0,
        0, 1258, 1263, 1268, 1272, 1272, 1268, 1263, 1258, 0,
        0, 1258, 1263, 1268, 1272, 1272, 1268, 1263, 1258, 0,
        0, 1258, 1263, 1268, 1272, 1272, 1268, 1263, 1258, 0,
        0, 1258, 1263, 1268, 1272, 1272, 1268, 1263, 1258, 0,
        0, 1258, 1263, 1268, 1272, 1272, 1268, 1263, 1258, 0,
        0, 1234, 1234, 1234, 1234, 1234, 1234, 1234, 1234, 0,
        0, 0, 0, 0, 0, 0, 0, 0, 0, 0,
        0, 0, 0, 0, 0, 0, 0, 0, 0, 0 >>,
    E |-> <<
        0, 0, 0, 0, 0, 0, 0, 0, 0, 0,
        0, 0, 0, 0, 0, 0, 0, 0, 0, 0,
        0, 1258, 1263, 1268, 1272, 1272, 1268, 1263, 1258, 0,
        0, 1258, 1263, 1268, 1272, 1272, 1268, 1263, 1258, 0,
        0, 1258, 1263, 1268, 1272, 1272, 1268, 1263, 1258, 0,
        0, 1258, 1263, 1268, 1272, 1272, 1268, 1263, 1258, 0,
        0, 1258, 1263, 1268, 1272, 1272, 1268, 1263, 1258, 0,
        0, 1258, 1263, 1268, 1272, 1272, 1268, 1263, 1258, 0,
        0, 1258, 1263, 1268, 1272, 1272, 1268, 1263, 1258, 0,
        0, 1258, 1263, 1268, 1272, 1272, 1268, 1263, 1258, 0,
        0, 0, 0, 0, 0, 0, 0, 0, 0, 0,
        0, 0, 0, 0, 0, 0, 0, 0, 0, 0 >>,
    Q |-> <<
        0, 0, 0, 0, 0, 0, 0, 0, 0, 0,
        0, 0, 0, 0, 0, 0, 0, 0, 0, 0,
        0, 2529, 2529, 2529, 2529, 2529, 2529, 2529, 2529, 0,
        0, 2529, 2529, 2529, 2529, 2529, 2529, 2529, 2529, 0,
        0, 2529, 2529, 2529, 2529, 2529, 2529, 2529, 2529, 0,
        0, 2529, 2529, 2529, 2529, 2529, 2529, 2529, 2529, 0,
        0, 2529, 2529, 2529, 2529, 2529, 2529, 2529, 2529, 0,
        0, 2529, 2529, 2529, 2529, 2529, 2529, 2529, 2529, 0,
        0, 2529, 2529, 2529, 2529, 2529, 2529, 2529, 2529, 0,
        0, 2529, 2529, 2529, 2529, 2529, 2529, 2529, 2529, 0,
        0, 0, 0, 0, 0, 0, 0, 0, 0, 0,
        0, 0, 0, 0, 0, 0, 0, 0, 0, 0 >>,
    M |-> <<
        0, 0, 0, 0, 0, 0, 0, 0, 0, 0,
        0, 0, 0, 0, 0, 0, 0, 0, 0, 0,
        0, 2200, 2600, 2600, 2600, 2600, 2600, 2600, 2200, 0,
        0, 2200, 2500, 2500, 2500, 2500, 2500, 2500, 2200, 0,
        0, 2200, 2500, 2500, 2500, 2500, 2500, 2500, 2200, 0,
        0, 2200, 2500, 2500, 2500, 2500, 2500, 2500, 2200, 0,
        0, 2200, 2500, 2500, 2500, 2500, 2500, 2500, 2200, 0,
        0, 2200, 2500, 2500, 2500, 2500, 2500, 2500, 2200, 0,
        0, 2200, 2500, 2500, 2500, 2500, 2500, 2500, 2200, 0,
        0, 1900, 1900, 1900, 1900, 1900, 1900, 1900, 1900, 0,
        0, 0, 0, 0, 0, 0, 0, 0, 0, 0,
        0, 0, 0, 0, 0, 0, 0, 0, 0, 0 >>,
    O |-> <<
        0, 0, 0, 0, 0, 0, 0, 0, 0, 0,
        0, 0, 0, 0, 0, 0, 0, 0, 0, 0,
        0, 2529, 2529, 2529, 2529, 2529, 2529, 2529, 2529, 0,
        0, 2529, 2529, 2529, 2529, 2529, 2529, 2529, 2529, 0,
        0, 2529, 2529, 2529, 2529, 2529, 2529, 2529, 2529, 0,
        0, 2529, 2529, 2529, 2529, 2529, 2529, 2529, 2529, 0,
        0, 2529, 2529, 2529, 2529, 2529, 2529, 2529, 2529, 0,
        0, 2529, 2529, 2529, 2529, 2529, 2529, 2529, 2529, 0,
        0, 2529, 2529, 2529, 2529, 2529, 2529, 2529, 2529, 0,
        0, 2529, 2529, 2529, 2529, 2529, 2529, 2529, 2529, 0,
        0, 0, 0, 0, 0, 0, 0, 0, 0, 0,
        0, 0, 0, 0, 0, 0, 0, 0, 0, 0 >>,
    A |-> <<
        0, 0, 0, 0, 0, 0, 0, 0, 0, 0,
        0, 0, 0, 0, 0, 0, 0, 0, 0, 0,
        0, 0, 0, 0, 0, 0, 0, 0, 0, 0,
        0, 1258, 1263, 1268, 1272, 1272, 1268, 1263, 1258, 0,
        0, 1258, 1263, 1268, 1272, 1272, 1268, 1263, 1258, 0,
        0, 1258, 1263, 1268, 1272, 1272, 1268, 1263, 1258, 0,
        0, 1258, 1263, 1268, 1272, 1272, 1268, 1263, 1258, 0,
        0, 1258, 1263, 1268, 1272, 1272, 1268, 1263, 1258, 0,
        0, 1234, 1234, 1234, 1234, 1234, 1234, 1234, 1234, 0,
        0, 0, 0, 0, 0, 0, 0, 0, 0, 0,
        0, 0, 0, 0, 0, 0, 0, 0, 0, 0 >>,
    U |-> <<
        0, 0, 0, 0, 0, 0, 0, 0, 0, 0,
        0, 0, 0, 0, 0, 0, 0, 0, 0, 0,
        0, 62000, 62000, 62000, 62000, 62000, 62000, 62000, 62000, 0,
        0, 62000, 62000, 62000, 62000, 62000, 62000, 62000, 62000, 0,
        0, 62000, 62000, 62000, 62000, 62000, 62000, 62000, 62000, 0,
        0, 62000, 62000, 62000, 62000, 62000, 62000, 62000, 62000, 0,
        0, 60200, 60325, 60400, 60400, 60400, 60400, 60325, 60200, 0,
        0, 60150, 60250, 60300, 60300, 60300, 60300, 60250, 60150, 0,
        0, 60150, 60175, 60200, 60200, 60200, 60200, 60175, 60150, 0,
        0, 60100, 60100, 60100, 60100, 60100, 60100, 60100, 60100, 0,
        0, 0, 0, 0, 0, 0, 0, 0, 0, 0,
        0, 0, 0, 0, 0, 0, 0, 0, 0, 0 >>,
    J |-> <<
        0, 0, 0, 0, 0, 0, 0, 0, 0, 0,
        0, 0, 0, 0, 0, 0, 0, 0, 0, 0,
        0, 2529, 2529, 2529, 2529, 2529, 2529, 2529, 2529, 0,
        0, 2529, 2529, 2529, 2529, 2529, 2529, 2529, 2529, 0,
        0, 2529, 2529, 2529, 2529, 2529, 2529, 2529, 2529, 0,
        0, 2529, 2529, 2529, 2529, 2529, 2529, 2529, 2529, 0,
        0, 2529, 2529, 2529, 2529, 2529, 2529, 2529, 2529, 0,
        0, 2529, 2529, 2529, 2529, 2529, 2529, 2529, 2529, 0,
        0, 2529, 2529, 2529, 2529, 2529, 2529, 2529, 2529, 0,
        0, 2529, 2529, 2529, 2529, 2529, 2529, 2529, 2529, 0,
        0, 0, 0, 0, 0, 0, 0, 0, 0, 0,
        0, 0, 0, 0, 0, 0, 0, 0, 0, 0 >>,
    K |-> <<
        0, 0, 0, 0, 0, 0, 0, 0, 0, 0,
        0, 0, 0, 0, 0, 0, 0, 0, 0, 0,
        0, 60098, 60132, 60073, 60025, 60025, 60073, 60132, 60098, 0,
        0, 60119, 60153, 60094, 60046, 60046, 60094, 60153, 60119, 0,
        0, 60146, 60180, 60121, 60073, 60073, 60121, 60180, 60146, 0,
        0, 61000, 61000, 61000, 61000, 61000, 61000, 61000, 61000, 0,
        0, 60196, 60230, 60171, 60123, 60123, 60171, 60230, 60196, 0,
        0, 60224, 60258, 60199, 60151, 60151, 60199, 60258, 60224, 0,
        0, 60287, 60321, 60262, 60214, 60214, 60262, 60321, 60287, 0,
        0, 60298, 60332, 60273, 60225, 60225, 60273, 60332, 60298, 0,
        0, 0, 0, 0, 0, 0, 0, 0, 0, 0,
        0, 0, 0, 0, 0, 0, 0, 0, 0, 0 >>,
    W |-> <<
        0, 0, 0, 0, 0, 0, 0, 0, 0, 0,
        0, 0, 0, 0, 0, 0, 0, 0, 0, 0,
        0, 62000, 62000, 62000, 62000, 62000, 62000, 62000, 62000, 0,
        0, 62000, 62000, 62000, 62000, 62000, 62000, 62000, 62000, 0,
        0, 62000, 62000, 62000, 62000, 62000, 62000, 62000, 62000, 0,
        0, 62000, 62000, 62000, 62000, 62000, 62000, 62000, 62000, 0,
        0, 60200, 60325, 60400, 60400, 60400, 60400, 60325, 60200, 0,
        0, 60150, 60250, 60300, 60300, 60300, 60300, 60250, 60150, 0,
        0, 60150, 60175, 60200, 60200, 60200, 60200, 60175, 60150, 0,
        0, 60100, 60100, 60100, 60100, 60100, 60100, 60100, 60100, 0,
        0, 0, 0, 0, 0, 0, 0, 0, 0, 0,
        0, 0, 0, 0, 0, 0, 0, 0, 0, 0 >>,
    C |-> <<
        0, 0, 0, 0, 0, 0, 0, 0, 0, 0,
        0, 0, 0, 0, 0, 0, 0, 0, 0, 0,
        0, 60098, 60132, 60073, 60025, 60025, 60073, 60132, 60098, 0,
        0, 60119, 60153, 60094, 60046, 60046, 60094, 60153, 60119, 0,
        0, 60146, 60180, 60121, 60073, 60073, 60121, 60180, 60146, 0,
        0, 61000, 61000, 61000, 61000, 61000, 61000, 61000, 61000, 0,
        0, 60196, 60230, 60171, 60123, 60123, 60171, 60230, 60196, 0,
        0, 60224, 60258, 60199, 60151, 60151, 60199, 60258, 60224, 0,
        0, 60287, 60321, 60262, 60214, 60214, 60262, 60321, 60287, 0,
        0, 60298, 60332, 60273, 60225, 60225, 60273, 60332, 60298, 0,
        0, 0, 0, 0, 0, 0, 0, 0, 0, 0,
        0, 0, 0, 0, 0, 0, 0, 0, 0, 0 >> ]

PstAt(p, j) == pst[p][j + 1]

(***************************************************************************)
(* Characters: str.isupper, str.islower, str.isspace, str.swapcase and     *)
(* str.upper on the one-character strings a board holds.                   *)
(***************************************************************************)
UpperLetters ==
  <<"P", "L", "B", "X", "T", "N", "Y", "H", "R", "Z", "G",
    "E", "Q", "M", "O", "A", "U", "J", "K", "W", "C">>
LowerLetters ==
  <<"p", "l", "b", "x", "t", "n", "y", "h", "r", "z", "g",
    "e", "q", "m", "o", "a", "u", "j", "k", "w", "c">>

Range(s) == {s[k] : k \in DOMAIN s}
Upper == Range(UpperLetters)
Lower == Range(LowerLetters)
Space == {" ", "\n"}

isupper(c) == c \in Upper
islower(c) == c \in Lower
isspace(c) == c \in Space

IndexOf(s, c) == CHOOSE k \in DOMAIN s : s[k] = c
toupper(c) == IF c \in Lower THEN UpperLetters[IndexOf(LowerLetters, c)] ELSE c
tolower(c) == IF c \in Upper THEN LowerLetters[IndexOf(UpperLetters, c)] ELSE c
swapcase(c) == IF c \in Upper THEN tolower(c) ELSE toupper(c)

Royals == {"K", "U", "W", "C"}
Warriors == {"U", "W"}

Squares == 0..119

\* board[j] of the source for -120 <= j <= 119: a negative index counts from the end.
At(board, j) == IF j < 0 THEN board[j + 120] ELSE board[j]

put(board, i, p) == [board EXCEPT ![i] = p]

\* The one element of a set of one element.
Sole(set) == CHOOSE x \in set : TRUE

(***************************************************************************)
(* Position.distance, Position.isPieceInvulnerable, Position.rotate        *)
(***************************************************************************)
Isqrt(n) == CHOOSE r \in 0..15 : r * r <= n /\ (r + 1) * (r + 1) > n

distance(fromPos, toPos) ==
  LET dr == (toPos \div 10) - (fromPos \div 10)
      df == (toPos % 10) - (fromPos % 10)
  IN  Isqrt(dr * dr + df * df)

isPieceInvulnerable(board, fromPos, toPos) ==
  LET f == At(board, fromPos)
      t == At(board, toPos)
      first == IF f \in {"K", "W", "U", "C"} THEN t \in {"g", " ", "\n"}
               ELSE IF f = "E" THEN t \in {"C", "m", "g", " ", "\n"}
               ELSE t \in {"m", "g", " ", "\n"}
  IN  \/ first
      \/ t \in {"e", " ", "\n"} /\ distance(fromPos, toPos) >= 3

Position(board, color, second, score, wa, ba, ws, bs, wc, bc, ep, kp) ==
  [ board |-> board, color |-> color, second |-> second, score |-> score,
    wa |-> wa, ba |-> ba, ws |-> ws, bs |-> bs, wc |-> wc, bc |-> bc,
    ep |-> ep, kp |-> kp ]

\* `not color`: True and False compare (and hash) equal to 1 and 0.
NotColor(color) == IF color = 0 THEN 1 ELSE 0

\* board[::-1].swapcase()
Reversed(board) == [k \in Squares |-> swapcase(board[119 - k])]

\* Variants of rotate: one hands the score over without negating it, one
\* leaves each army with the side it was given to, one rotates ep and kp
\* without keeping 0 for `none`, one carries the second flag over.
rotate_keepScore(self) ==
  LET ep == IF self.ep = 0 THEN 119 ELSE self.ep
      kp == IF self.kp = 0 THEN 119 ELSE self.kp
  IN  Position(Reversed(self.board),
               NotColor(self.color), FALSE, self.score,
               self.ba, self.wa, self.bs, self.ws,
               self.bc, self.wc, 119 - ep, 119 - kp)

rotate_sameArmies(self) ==
  LET ep == IF self.ep = 0 THEN 119 ELSE self.ep
      kp == IF self.kp = 0 THEN 119 ELSE self.kp
  IN  Position(Reversed(self.board),
               NotColor(self.color), FALSE, -self.score,
               self.wa, self.ba, self.ws, self.bs,
               self.bc, self.wc, 119 - ep, 119 - kp)

rotate_noneAsSquare(self) ==
  Position(Reversed(self.board),
           NotColor(self.color), FALSE, -self.score,
           self.ba, self.wa, self.bs, self.ws,
           self.bc, self.wc, 119 - self.ep, 119 - self.kp)

rotate_keepSecond(self) ==
  LET ep == IF self.ep = 0 THEN 119 ELSE self.ep
      kp == IF self.kp = 0 THEN 119 ELSE self.kp
  IN  Position(Reversed(self.board),
               NotColor(self.color), self.second, -self.score,
               self.ba, self.wa, self.bs, self.ws,
               self.bc, self.wc, 119 - ep, 119 - kp)

rotate(self) ==
  LET ep == IF self.ep = 0 THEN 119 ELSE self.ep
      kp == IF self.kp = 0 THEN 119 ELSE self.kp
  IN  Position(Reversed(self.board),
               NotColor(self.color), FALSE, -self.score,
               self.ba, self.wa, self.bs, self.ws,
               self.bc, self.wc, 119 - ep, 119 - kp)

(***************************************************************************)
(* Position.value: the score delta of a move.                              *)
(***************************************************************************)
ValueOf(self, i, j, p, q) ==
  IF isupper(q) /\ q \in Royals THEN -30000
  ELSE IF p \in Royals /\ 50 < i /\ i < 59 THEN MIDLINE_VALUE
  ELSE PstAt(p, j) - PstAt(p, i)
       + (IF islower(q) THEN PstAt(toupper(q), j) ELSE 0)
       - (IF isupper(q) THEN PstAt(q, j) \div 2 ELSE 0)
       + (IF Abs(j - self.kp) < 2 THEN PstAt("K", j) ELSE 0)
       + (IF p = "K" /\ Abs(i - j) = 2
          THEN PstAt("R", (i + j) \div 2) - PstAt("R", IF j < i THEN A1 ELSE H1)
          ELSE 0)
       + (IF p = "P" /\ A8 <= j /\ j <= H8 THEN PstAt("Q", j) - PstAt("P", j) ELSE 0)
       + (IF p = "P" /\ j = self.ep THEN PstAt("P", j + S) ELSE 0)

value(self, mv) ==
  ValueOf(self, mv[1], mv[2], At(self.board, mv[1]), At(self.board, mv[2]))

(***************************************************************************)
(* Position.move                                                           *)
(***************************************************************************)
\* The direction of an Elephant's rampage after it captured on j coming from i.
RampageStep(i, j) ==
  IF (i \div 10) - (j \div 10) = 0
  THEN (IF i - j < 0 THEN 1 ELSE -1)
  ELSE (IF i - j > 0 THEN -10 ELSE 10)

\* The rampage loop `for dr in range(abs(4 - distance(i, j)))`, from dr on.
RECURSIVE Rampage(_, _, _, _, _)
Rampage(board, i, j, dr, limit) ==
  IF dr >= limit THEN board
  ELSE IF dr = 0 THEN Rampage(board, i, j, dr + 1, limit)
  ELSE LET u == RampageStep(i, j)
           from == j + (dr \div 2) * u
           to == j + dr * u
       IN  IF ~isPieceInvulnerable(board, from, to)
           THEN Rampage(put(put(board, to, "E"), from, "."), i, j, dr + 1, limit)
           ELSE board

\* Variant of Whirlwind that clears the 8 neighbours whatever they hold.
Whirlwind_unguarded(board, i, k) ==
  [s \in Squares |->
     IF \E n \in k..Len(Compass) : s = i + Compass[n] THEN "." ELSE board[s]]

\* The whirlwind loop over the 8 neighbours of i, from the k-th on.
RECURSIVE Whirlwind(_, _, _)
Whirlwind(board, i, k) ==
  IF k > Len(Compass) THEN board
  ELSE IF isspace(At(board, i + Compass[k])) THEN Whirlwind(board, i, k + 1)
  ELSE Whirlwind(put(board, i + Compass[k], "."), i, k + 1)

\* Lines 620-671 for every piece: the Tiger moves onto the piece it kills.
MovePiece_tigerMoves(board, i, j) ==
  LET p == At(board, i)
      q == At(board, j)
      standard == put(put(board, j, At(board, i)), i, ".")
  IN  IF p = "E" /\ q # "."
        THEN IF 3 - distance(i, j) > 0
             THEN Rampage(standard, i, j, 0, Abs(4 - distance(i, j)))
             ELSE standard
      ELSE IF p \in {"U", "W"}
        THEN IF i = j THEN Whirlwind(board, i, 1) ELSE standard
      ELSE IF p = "M"
        THEN IF q \in {".", "k", "u", "w", "c"} THEN standard ELSE board
      ELSE standard

\* Lines 618-671: the piece-specific effect of the move on the board.
MovePiece(board, i, j) ==
  LET p == At(board, i)
      q == At(board, j)
      standard == put(put(board, j, At(board, i)), i, ".")
  IN  IF p = "T" /\ q # "." THEN put(board, j, ".")
      ELSE IF p = "E" /\ q # "."
        THEN IF 3 - distance(i, j) > 0
             THEN Rampage(standard, i, j, 0, Abs(4 - distance(i, j)))
             ELSE standard
      ELSE IF p \in {"U", "W"}
        THEN IF i = j THEN Whirlwind(board, i, 1) ELSE standard
      ELSE IF p = "M"
        THEN IF q \in {".", "k", "u", "w", "c"} THEN standard ELSE board
      ELSE standard

\* Lines 672-676: castling rights lost by leaving a corner or landing on one.
CastlingRights(wc, bc, i, j) ==
  LET wc1 == IF i = A1 THEN <<FALSE, wc[2]>> ELSE wc
      wc2 == IF i = H1 THEN <<wc1[1], FALSE>> ELSE wc1
      bc1 == IF j = A8 THEN <<bc[1], FALSE>> ELSE bc
      bc2 == IF j = H8 THEN <<FALSE, bc1[2]>> ELSE bc1
  IN  <<wc2, bc2>>

\* Lines 681-683: the rook of a castling king leaves its corner for the
\* square the king crossed.
CastleRook_otherCorner(board, i, j) ==
  put(put(board, IF j > i THEN A1 ELSE H1, "."), (i + j) \div 2, "R")

CastleRook(board, i, j) ==
  put(put(board, IF j < i THEN A1 ELSE H1, "."), (i + j) \div 2, "R")

\* Lines 693-699: whose turn the returned position is.
TurnSequencing(second, made) ==
  IF second THEN rotate(made)
  ELSE IF made.wa = 5 THEN [made EXCEPT !.second = TRUE]
  ELSE rotate(made)

\* Lines 678-683: the board after the castling of the King p.
Castled(board, p, i, j) ==
  IF p = "K" /\ Abs(j - i) = 2 THEN CastleRook(board, i, j) ELSE board

\* Lines 685-687: the board after the promotion of the pawn p.
Promoted(board, p, j) ==
  IF p = "P" /\ A8 <= j /\ j <= H8 THEN put(board, j, "Q") ELSE board

\* Lines 690-691: the board after the en-passant capture by the pawn p.
EnPassant(board, p, i, j, q) ==
  IF p = "P" /\ j - i \in {N + W, N + E} /\ q = "." THEN put(board, j + S, ".")
  ELSE board

\* Lines 672-676 without the King's loss of both rights (lines 678-679).
RightsAfter_kingKeeps(rights, p) == rights

\* Lines 672-679: the castling rights after the move of p from i to j.
RightsAfter(rights, p) ==
  <<IF p = "K" THEN <<FALSE, FALSE>> ELSE rights[1], rights[2]>>

\* Lines 613-691: the position the move makes, before the turn is handed over.
Made(self, i, j, p, q) ==
  Position(EnPassant(Promoted(Castled(MovePiece(self.board, i, j), p, i, j), p, j),
                     p, i, j, q),
           self.color, FALSE, self.score + value(self, <<i, j>>),
           self.wa, self.ba, self.ws, self.bs,
           RightsAfter(CastlingRights(self.wc, self.bc, i, j), p)[1],
           RightsAfter(CastlingRights(self.wc, self.bc, i, j), p)[2],
           IF p = "P" /\ j - i = N * 2 THEN i + N ELSE 0,
           IF p = "K" /\ Abs(j - i) = 2 THEN (i + j) \div 2 ELSE 0)

move(self, mv) ==
  TurnSequencing(self.second,
                 Made(self, mv[1], mv[2], At(self.board, mv[1]), At(self.board, mv[2])))

(***************************************************************************)
(* Position.genMoves.  The generator's output is the sequence of the moves *)
(* it yields, in order and with repetitions.                               *)
(***************************************************************************)
Diagonals == {N+E, S+E, S+W, N+W}
Orthogonals == {N, E, S, W}
Jumps == Range(KnightJumps)

RECURSIVE Copies(_, _)
Copies(mv, n) == IF n = 0 THEN << >> ELSE <<mv>> \o Copies(mv, n - 1)

SquareSeq == [k \in 1..120 |-> k - 1]

\* Lines 441-444: the squares of the opposing royals, in board order.
royalOf(board) == SelectSeq(SquareSeq, LAMBDA sq : board[sq] \in {"k", "c", "u", "w"})

\* Lines 445-446: the squares holding an uppercase piece, in board order.
mine(board) == SelectSeq(SquareSeq, LAMBDA sq : isupper(board[sq]))

\* Lines 456-460 and 560-564: a Warrior on i may whirlwind.
CanWhirlwind(board, i) ==
  \A k \in DOMAIN Compass : At(board, i + Compass[k]) \notin {"U", "W"}

\* Variants of SecondRay: one does not stop at the whitespace around the
\* board, one lets every piece move in the second sub-turn.
SecondRay_unguarded(self, i, d) ==
  LET p == self.board[i]
      j == i + d
      q == At(self.board, j)
  IN  IF p \notin {"U", "W"} THEN << >>
      ELSE IF isupper(q) THEN << >>
      ELSE IF d = H
        THEN (IF CanWhirlwind(self.board, i) THEN <<(<<i, j>>)>> ELSE << >>)
      ELSE <<(<<i, j>>)>>

SecondRay_anyPiece(self, i, d) ==
  LET j == i + d
      q == At(self.board, j)
  IN  IF isspace(q) THEN << >>
      ELSE IF isupper(q) THEN << >>
      ELSE IF d = H
        THEN (IF CanWhirlwind(self.board, i) THEN <<(<<i, j>>)>> ELSE << >>)
      ELSE <<(<<i, j>>)>>

\* Lines 448-462: the moves of direction d of the piece on i in the second sub-turn.
SecondRay(self, i, d) ==
  LET p == self.board[i]
      j == i + d
      q == At(self.board, j)
  IN  IF p \notin {"U", "W"} THEN << >>
      ELSE IF isspace(q) THEN << >>
      ELSE IF isupper(q) THEN << >>
      ELSE IF d = H
        THEN (IF CanWhirlwind(self.board, i) THEN <<(<<i, j>>)>> ELSE << >>)
      ELSE <<(<<i, j>>)>>

\* Lines 464-472: the destinations of a Reaper or a Ghost on i.  The `break` of
\* line 471 leaves the loop over the destinations: `last` is the index of the
\* destination at which the loop ends.  out: the moves yielded; q: the local q
\* when the loop ends.
ReaperGhost(self, i) ==
  LET board == self.board
      p == board[i]
      dirs == directions[p]
      breaks == {k \in DOMAIN dirs :
                   /\ p # "G"
                   /\ ~isPieceInvulnerable(board, i, dirs[k])
                   /\ isupper(board[dirs[k]])}
      last == IF breaks = {} THEN Len(dirs)
              ELSE CHOOSE k \in breaks : \A m \in breaks : k <= m
      yields(d) == IF p = "G" THEN board[d] = "."
                   ELSE ~isPieceInvulnerable(board, i, d) /\ ~isupper(board[d])
      dests == SelectSeq(SubSeq(dirs, 1, last), yields)
  IN  [out |-> [k \in DOMAIN dests |-> <<i, dests[k]>>],
       q |-> board[dirs[last]]]

\* Lines 509-530: the Nemesis pawn on i steps in direction d towards the royal on k.
TowardsRoyal(i, k, d) ==
  LET row == (i \div 10) - (k \div 10)
      column == (i % 10) - (k % 10)
  IN  IF row > 0
      THEN \/ column > 0 /\ d \in {N, W, N+W}
           \/ column = 0 /\ d = N
           \/ column < 0 /\ d \in {N, E, N+E}
      ELSE IF row = 0
      THEN \/ column > 0 /\ d = W
           \/ column < 0 /\ d = E
      ELSE \/ column > 0 /\ d \in {S, W, S+W}
           \/ column = 0 /\ d = S
           \/ column < 0 /\ d \in {S, E, S+E}

\* Lines 531-557: for the Empowered piece p moving in direction d, the neighbour
\* nb on one of its four sides makes it yield the move / makes it a crawler.
EmpoweredYields(p, d, nb) ==
  IF p = "X"
  THEN \/ d \in Diagonals
       \/ nb = "Y" /\ d \in Jumps
       \/ nb = "Z" /\ d \in Orthogonals
  ELSE IF p = "Y"
  THEN \/ nb = "X" /\ d \in Diagonals
       \/ d \in Jumps
       \/ nb = "Z" /\ d \in Orthogonals
  ELSE \/ nb = "X" /\ d \in Diagonals
       \/ nb = "Y" /\ d \in Jumps
       \/ d \in Orthogonals

EmpoweredCrawls(p, d, nb) ==
  IF p = "X" THEN d \notin Diagonals /\ nb = "Y" /\ d \in Jumps
  ELSE IF p = "Y" THEN ~(nb = "X" /\ d \in Diagonals) /\ d \in Jumps
  ELSE ~(nb = "X" /\ d \in Diagonals) /\ nb = "Y" /\ d \in Jumps

crawlers == {"P", "L", "T", "N", "H", "O", "U", "K", "W", "C"}

\* Lines 502-571: what the step onto j yields after o2, and whether it ends
\* the ray (stop).
RayYield(self, royal, i, p, d, j, q, o2) ==
  LET board == self.board
      nYields == Cardinality({m \in 1..4 :
                    EmpoweredYields(p, d, At(board, i + Compass[m]))})
      nRoyals == Cardinality({m \in DOMAIN royal : TowardsRoyal(i, royal[m], d)})
  IN  IF isPieceInvulnerable(board, i, j) THEN [stop |-> TRUE, out |-> o2]
      ELSE IF p = "L"
        THEN IF d \in {N, E, S, W, S+W, S+E} /\ q # "."
             THEN [stop |-> TRUE, out |-> o2]
             ELSE [stop |-> FALSE, out |-> o2 \o Copies(<<i, j>>, nRoyals)]
      ELSE IF p \in {"X", "Y", "Z"}
        THEN [stop |-> FALSE, out |-> o2 \o Copies(<<i, j>>, nYields)]
      ELSE IF p \in {"U", "W"}
        THEN IF d = H
             THEN [stop |-> FALSE,
                   out |-> IF CanWhirlwind(board, i) THEN Append(o2, <<i, j>>) ELSE o2]
             ELSE [stop |-> FALSE, out |-> Append(o2, <<i, j>>)]
      ELSE IF p = "T" /\ d \in {(N+E)*2, (S+E)*2, (S+W)*2, (N+W)*2}
              /\ isupper(At(board, i + (d \div 2)))
        THEN [stop |-> TRUE, out |-> o2]
      ELSE IF p = "M" /\ q \notin {"k", "u", "w", "c", "."}
        THEN [stop |-> TRUE, out |-> o2]
      ELSE [stop |-> FALSE, out |-> Append(o2, <<i, j>>)]

\* Lines 573-579 without the Elephant's test of line 574.
RayEnds_distanceOnly(board, i, p, d, j, q) ==
  \/ p = "E" /\ distance(i, j) > 4
  \/ p = "J" /\ d \in Jumps
  \/ p \in crawlers
  \/ p \in {"X", "Y", "Z"}
     /\ \E m \in 1..4 : EmpoweredCrawls(p, d, At(board, i + Compass[m]))
  \/ islower(q)

\* Lines 573-579: the ray ends after the step onto j.
RayEnds(board, i, p, d, j, q) ==
  \/ p = "E" /\ distance(i, j) > 4
  \/ p = "E" /\ isupper(At(board, j - d))
  \/ p = "J" /\ d \in Jumps
  \/ p \in crawlers
  \/ p \in {"X", "Y", "Z"}
     /\ \E m \in 1..4 : EmpoweredCrawls(p, d, At(board, i + Compass[m]))
  \/ islower(q)

\* Lines 483-486: castling, yielded from the rook's ray when it meets the King.
RayCastling(self, i, j, q) ==
  (IF i = A1 /\ q = "K" /\ self.wc[1] THEN <<(<<j, j - 2>>)>> ELSE << >>)
  \o (IF i = H1 /\ q = "K" /\ self.wc[2] THEN <<(<<j, j + 2>>)>> ELSE << >>)

\* Lines 488-495: the Elephant on i runs over the friendly piece q on j.
RayRide(board, i, p, j, q, elephant) ==
  /\ isupper(q) /\ p # q /\ p = "E"
  /\ ~isPieceInvulnerable(board, i, j)
  /\ ~elephant

\* Lines 497-499 without the rank test of line 499.
PawnStop_anyRank(self, i, p, d, j, q) ==
  \/ p = "P" /\ d \in {N+W, N+E} /\ q = "." /\ j \notin {self.ep, self.kp}
  \/ p = "P" /\ d \in {N, 2*N} /\ q # "."
  \/ p = "P" /\ d = 2*N /\ At(self.board, i + N) # "."

\* Lines 497-499: the classic pawn on i does not move to j in direction d.
PawnStop(self, i, p, d, j, q) ==
  \/ p = "P" /\ d \in {N+W, N+E} /\ q = "." /\ j \notin {self.ep, self.kp}
  \/ p = "P" /\ d \in {N, 2*N} /\ q # "."
  \/ p = "P" /\ d = 2*N /\ (i < A1 + N \/ At(self.board, i + N) # ".")

\* Lines 475-579: the ray of the k-th direction d of the piece p on i = own[n],
\* from square j on.  out: the moves yielded; q: the local q when the ray ends.
\* When board[j] raises IndexError (line 476) q keeps the value it had: qPrev
\* within the ray, and on the ray's first step (first) the value the rays before
\* it left (StaleQ).
RECURSIVE Ray(_, _, _, _, _, _, _, _, _)
RECURSIVE StaleQ(_, _, _, _, _)

\* The moves yielded so far followed by those of the rest of the ray.
RayMore(out, more) == [out |-> out \o more.out, q |-> more.q]

\* After the step onto j: the ray ends or goes on from j + d.
RayGo(self, royal, own, n, k, j, elephant, d, q, yielded, ends) ==
  IF yielded.stop \/ ends THEN [out |-> yielded.out, q |-> q]
  ELSE RayMore(yielded.out,
               Ray(self, royal, own, n, k, j + d, elephant, FALSE, q))

\* The step onto j, q being what line 477 left in q, cs the castling moves and
\* ride the Elephant's run of lines 488-495.
RayStep(self, royal, own, n, k, j, elephant, i, p, d, q, cs, ride) ==
  IF isspace(q) THEN [out |-> << >>, q |-> q]
  ELSE IF isupper(q) /\ p # q /\ p # "H" /\ p # "E" THEN [out |-> cs, q |-> q]
  ELSE IF PawnStop(self, i, p, d, j, q)
    THEN [out |-> IF ride THEN Append(cs, <<i, j>>) ELSE cs, q |-> q]
  ELSE RayGo(self, royal, own, n, k, j, elephant \/ ride, d, q,
             RayYield(self, royal, i, p, d, j, q,
                      IF ride THEN Append(cs, <<i, j>>) ELSE cs),
             RayEnds(self.board, i, p, d, j, q))

\* The step onto j of the piece p on i in direction d, once q is fetched.
RayFetched(self, royal, own, n, k, j, elephant, i, p, d, q) ==
  RayStep(self, royal, own, n, k, j, elephant, i, p, d, q,
          RayCastling(self, i, j, q),
          RayRide(self.board, i, p, j, q, elephant))

Ray(self, royal, own, n, k, j, elephant, first, qPrev) ==
  RayFetched(self, royal, own, n, k, j, elephant,
             own[n], self.board[own[n]], directions[self.board[own[n]]][k],
             IF j > 119
             THEN (IF first THEN StaleQ(self, royal, own, n, k) ELSE qPrev)
             ELSE At(self.board, j))

\* The local q before the k-th direction of the piece on own[n] in a normal turn:
\* what the direction before it, or the piece before it, left; "" is unbound.
StaleQ(self, royal, own, n, k) ==
  LET before == own[n - 1]
      pb == self.board[before]
  IN  IF k > 1 THEN Ray(self, royal, own, n, k - 1,
                        own[n] + directions[self.board[own[n]]][k - 1], FALSE, TRUE, "").q
      ELSE IF n = 1 THEN ""
      ELSE IF pb \in {"A", "G"} THEN ReaperGhost(self, before).q
      ELSE Ray(self, royal, own, n - 1, Len(directions[pb]),
               before + directions[pb][Len(directions[pb])], FALSE, TRUE, "").q

\* Lines 447-579: the moves of the piece on own[n], from its k-th direction on.
RECURSIVE PieceRays(_, _, _, _, _, _)
PieceRays(self, royal, second, own, n, k) ==
  LET i == own[n]
      dirs == directions[self.board[i]]
  IN  IF k > Len(dirs) THEN << >>
      ELSE (IF second THEN SecondRay(self, i, dirs[k])
            ELSE Ray(self, royal, own, n, k, i + dirs[k], FALSE, TRUE, "").out)
           \o PieceRays(self, royal, second, own, n, k + 1)

\* Lines 445-447: the moves of the pieces on the squares own, from the n-th on.
RECURSIVE Pieces(_, _, _, _, _)
Pieces(self, royal, second, own, n) ==
  IF n > Len(own) THEN << >>
  ELSE (IF ~second /\ self.board[own[n]] \in {"A", "G"}
        THEN ReaperGhost(self, own[n]).out
        ELSE PieceRays(self, royal, second, own, n, 1))
       \o Pieces(self, royal, second, own, n + 1)

genMoves(self, second) ==
  Pieces(self, royalOf(self.board), second, mine(self.board), 1)

(***************************************************************************)
(* main: the start position and the game loop.                             *)
(***************************************************************************)
army_name_dict ==
  << <<(<<"R", "N", "B", "Q", "K", "B", "N", "R">>), "P">>,
     <<(<<"R", "N", "B", "M", "C", "B", "N", "R">>), "L">>,
     <<(<<"Z", "Y", "X", "O", "C", "X", "Y", "Z">>), "P">>,
     <<(<<"G", "N", "B", "A", "C", "B", "N", "G">>), "P">>,
     <<(<<"R", "N", "B", "U", "W", "B", "N", "R">>), "P">>,
     <<(<<"E", "H", "T", "J", "C", "T", "H", "E">>), "P">> >>

Blank == [k \in 1..9 |-> " "]
Dots == [k \in 1..8 |-> "."]

\* Lines 930-948: the 120 cells of the start position.
initial(wArmy, bArmy) ==
  LET whiteArmy == army_name_dict[wArmy][1]
      whitePawns == [k \in 1..8 |-> army_name_dict[wArmy][2]]
      blackArmy == [k \in 1..8 |-> tolower(army_name_dict[bArmy][1][9 - k])]
      blackPawns == [k \in 1..8 |-> tolower(army_name_dict[bArmy][2])]
      cells == Blank \o <<"\n">>
            \o Blank \o <<"\n">>
            \o <<" ">> \o blackArmy \o <<"\n">>
            \o <<" ">> \o blackPawns \o <<"\n">>
            \o <<" ">> \o Dots \o <<"\n">>
            \o <<" ">> \o Dots \o <<"\n">>
            \o <<" ">> \o Dots \o <<"\n">>
            \o <<" ">> \o Dots \o <<"\n">>
            \o <<" ">> \o whitePawns \o <<"\n">>
            \o <<" ">> \o whiteArmy \o <<"\n">>
            \o Blank \o <<"\n">>
            \o Blank \o <<" ">>
  IN  [k \in Squares |-> cells[k + 1]]

\* Line 950
start(wArmy, bArmy) ==
  Position(initial(wArmy, bArmy), 0, FALSE, 0, wArmy, bArmy, 3, 3,
           <<TRUE, TRUE>>, <<TRUE, TRUE>>, 0, 0)

(***************************************************************************)
(* The game.  main keeps the position pos and the move it got for it; the  *)
(* armies the two players chose are wArmy and bArmy.  prev is the position *)
(* the last move was applied to (a history variable), lastMove that move,  *)
(* << >> when there is none (None in main).                                *)
(*                                                                         *)
(* The game is explored from positions of play: each is the start position *)
(* of two armies followed by a line of generated moves (Play checks that   *)
(* every move of the line is one genMoves yields).  ply counts the plies   *)
(* explored; a position of play starts with `spent` of the MaxPly used up. *)
(***************************************************************************)
MaxPly == 2

VARIABLES pos, prev, lastMove, wArmy, bArmy, ply

gameVars == <<pos, prev, lastMove, wArmy, bArmy, ply>>

(***************************************************************************)
(* The search.  tp is the transposition table, in insertion order, nodes   *)
(* the node counter; both are globals of the program.  older counts the    *)
(* entries that searches of earlier positions of the game left in the      *)
(* table: none of them is a key the searches of pos look up, so only their *)
(* number is kept.  bound is recursive: stack holds the frames of its      *)
(* calls in progress (the innermost last) and ret the value the last       *)
(* completed call returned.  maxn, depth, lower, upper, gamma and score    *)
(* are the locals of search, at its place in the code, returned the        *)
(* results of the searches completed so far, and err the exception that    *)
(* ended the program, if any.                                              *)
(***************************************************************************)
VARIABLES tp, older, nodes, maxn, depth, lower, upper, gamma, score,
          stack, ret, returned, at, err

searchVars == <<tp, older, nodes, maxn, depth, lower, upper, gamma, score,
                stack, ret, returned, at, err>>

vars == <<gameVars, searchVars>>

\* No search has been run.
SearchIdle ==
  /\ tp = << >>
  /\ older = 0
  /\ nodes = 0
  /\ maxn = 0
  /\ depth = 0
  /\ lower = 0
  /\ upper = 0
  /\ gamma = 0
  /\ score = 0
  /\ stack = << >>
  /\ ret = 0
  /\ returned = << >>
  /\ at = "idle"
  /\ err = "none"

\* The position the moves line[k], line[k+1], ... lead to from self, each
\* being a move genMoves yields (ok); the line is played half by half.
RECURSIVE Play(_, _, _)
Play(self, line, k) ==
  IF k > Len(line) THEN [ok |-> TRUE, pos |-> self]
  ELSE IF k = Len(line)
    THEN IF line[k] \in Range(genMoves(self, self.second))
         THEN [ok |-> TRUE, pos |-> move(self, line[k])]
         ELSE [ok |-> FALSE, pos |-> self]
  ELSE Sole({IF first.ok THEN Play(first.pos, line, (k + Len(line)) \div 2 + 1)
             ELSE first :
               first \in {Play(self, SubSeq(line, 1, (k + Len(line)) \div 2), k)}})

Openings ==
  << [w |-> 1, b |-> 1, spent |-> 1, line |->
        << <<84, 64>>, <<84, 64>>, <<93, 66>>, <<93, 66>>,
           <<92, 73>>, <<92, 73>>, <<94, 74>>, <<94, 74>> >>],
     [w |-> 1, b |-> 1, spent |-> 1, line |->
        << <<85, 75>>, <<85, 75>>, <<96, 74>>, <<96, 74>>, <<97, 76>>, <<97, 76>> >>],
     [w |-> 1, b |-> 3, spent |-> 1, line |->
        << <<85, 65>>, <<81, 71>>, <<65, 55>>, <<85, 65>> >>],
     [w |-> 6, b |-> 4, spent |-> 1, line |->
        << <<84, 64>>, <<81, 71>>, <<93, 75>>, <<82, 72>>,
           <<75, 57>>, <<83, 73>>, <<97, 76>>, <<84, 74>> >>],
     [w |-> 5, b |-> 1, spent |-> 0, line |->
        << <<85, 75>>, <<95, 85>>, <<81, 71>>, <<84, 64>>, <<85, 74>>, <<82, 72>> >>],
     [w |-> 1, b |-> 5, spent |-> 1, line |-> << <<85, 65>> >>],
     [w |-> 4, b |-> 2, spent |-> 1, line |-> << >>],
     [w |-> 2, b |-> 3, spent |-> 1, line |-> << >>],
     [w |-> 3, b |-> 6, spent |-> 1, line |-> << >>],
     [w |-> 5, b |-> 4, spent |-> 1, line |->
        << <<85, 75>>, <<95, 85>>, <<91, 45>>, <<81, 71>> >>],
     [w |-> 6, b |-> 1, spent |-> 1, line |-> << <<88, 68>>, <<81, 71>> >>],
     [w |-> 1, b |-> 1, spent |-> 1, line |->
        << <<85, 75>>, <<85, 75>>, <<96, 74>>, <<96, 74>>, <<97, 76>>, <<97, 76>>,
           <<98, 97>>, <<81, 71>> >>] >>

GameInit(openings) ==
  /\ \E o \in openings :
       LET played == Play(start(o.w, o.b), o.line, 1)
       IN  /\ played.ok
           /\ pos = played.pos
           /\ wArmy = o.w
           /\ bArmy = o.b
           /\ ply = o.spent
  /\ prev = pos
  /\ lastMove = << >>

Init ==
  /\ GameInit(Range(Openings))
  /\ SearchIdle

\* Lines 986-988 and 991-996: a generated move is applied to the position.
Move ==
  /\ ply < MaxPly
  /\ \E mv \in Range(genMoves(pos, pos.second)) :
       /\ pos' = move(pos, mv)
       /\ lastMove' = mv
  /\ prev' = pos
  /\ ply' = ply + 1
  /\ UNCHANGED <<wArmy, bArmy>>
  /\ UNCHANGED searchVars

\* Lines 997-1002: the second sub-turn is given up.
SkipSecond ==
  /\ ply < MaxPly
  /\ pos.second
  /\ pos' = rotate(Position(pos.board, pos.color, FALSE, 0,
                            pos.wa, pos.ba, pos.ws, pos.bs,
                            pos.wc, pos.bc, pos.ep, pos.kp))
  /\ lastMove' = << >>
  /\ prev' = pos
  /\ ply' = ply + 1
  /\ UNCHANGED <<wArmy, bArmy>>
  /\ UNCHANGED searchVars

Next == Move \/ SkipSecond

Spec == Init /\ [][Next]_vars

(***************************************************************************)
(* Properties of the game.                                                 *)
(***************************************************************************)
Playable(s) == s \in Squares /\ s \div 10 \in 2..9 /\ s % 10 \in 1..8

Sentinels == {s \in Squares : ~Playable(s)}

\* The army the side to move of position p chose.
SideArmy(p) == IF p.color = 0 THEN wArmy ELSE bArmy
OtherArmy(p) == IF p.color = 0 THEN bArmy ELSE wArmy

\* The letters an army can have on the board: its back rank, its pawn and,
\* for an army of P pawns, the Queen of a promotion.
ArmyLetters(a) ==
  Range(army_name_dict[a][1]) \cup {army_name_dict[a][2]}
    \cup (IF army_name_dict[a][2] = "P" THEN {"Q"} ELSE {})

Moved == lastMove # << >>
Rotated == pos.color # prev.color

\* C1: every move genMoves emits, in normal mode and in second-sub-turn mode,
\* castling included, goes from a playable square holding an uppercase piece
\* to a playable square (one that holds no whitespace).
C1_MovesOnBoard ==
  \A second \in BOOLEAN :
    \A m \in Range(genMoves(pos, second)) :
      /\ Playable(m[1])
      /\ isupper(pos.board[m[1]])
      /\ Playable(m[2])
      /\ ~isspace(pos.board[m[2]])

\* A position where a castling move is emitted and a Two Kings position whose
\* second sub-turn has moves are both reachable; the first is the witness.
C1_Witness ==
  /\ <<95, 93>> \in Range(genMoves(pos, FALSE))
  /\ pos.board[95] = "K"
  /\ Moved

\* C2: the position move returns has score -(old.score + value(m)) when it
\* was rotated, and old.score + value(m) when the second sub-turn was granted
\* and nothing was rotated.
C2_ScoreBookkeeping ==
  Moved =>
    /\ Rotated => pos.score = -(prev.score + value(prev, lastMove))
    /\ ~Rotated => /\ pos.second
                   /\ pos.score = prev.score + value(prev, lastMove)

C2_Witness ==
  /\ Moved
  /\ ~Rotated
  /\ pos.second
  /\ value(prev, lastMove) # 0
  /\ pos.score # 0

\* C3 (as the code has it): rotating twice gives the position back with the
\* second flag cleared, so it gives back exactly the positions whose second
\* flag is false.
C3_RotateTwice ==
  rotate(rotate(pos)) = [pos EXCEPT !.second = FALSE]

\* C3 (as stated): rotate(rotate(p)) = p for every reachable position, those
\* returned by move with second = true included.
C3_RotateInvolution ==
  rotate(rotate(pos)) = pos

C3_Witness ==
  /\ Moved
  /\ pos.second
  /\ pos.ep # 0
  /\ rotate(rotate(pos)) # pos

\* The board of pos is the board of prev seen from the same side: a move
\* changes at most the 8 neighbours of a whirlwind, a rotation nearly all.
Unrotated ==
  /\ Cardinality({s \in Squares : pos.board[s] # prev.board[s]}) <= 8
  /\ pos.board[9] = prev.board[9]
  /\ pos.board[110] = prev.board[110]
  /\ pos.wa = prev.wa /\ pos.ba = prev.ba

Turned ==
  /\ pos.board[9] = prev.board[110]
  /\ pos.board[110] = prev.board[9]
  /\ pos.board[9] # pos.board[110]
  /\ pos.wa = prev.ba /\ pos.ba = prev.wa

\* C4: a first move of the Two Kings side returns a position with second
\* true, the same color and an un-rotated board; genMoves in second mode
\* emits only moves of a Warrior on that position; a move applied to a
\* position with second true returns a rotated position with second false
\* and the color flipped; a move of any other army rotates.
C4_TurnSequencing ==
  /\ (Moved /\ ~prev.second /\ SideArmy(prev) = 5) =>
       pos.second /\ ~Rotated /\ Unrotated
  /\ pos.second =>
       \A m \in Range(genMoves(pos, TRUE)) : pos.board[m[1]] \in Warriors
  /\ (Moved /\ prev.second) => ~pos.second /\ Rotated /\ Turned
  /\ (Moved /\ SideArmy(prev) # 5) => ~pos.second /\ Rotated /\ Turned

C4_Witness ==
  /\ Moved
  /\ prev.second
  /\ prev.board[lastMove[1]] \in Warriors
  /\ SideArmy(prev) = 5
  /\ ~pos.second

\* C7: the board has exactly 120 cells, every sentinel cell holds whitespace,
\* every playable cell holds '.' or one piece letter, and no move writes to a
\* sentinel cell.
C7_BoardShape ==
  /\ DOMAIN pos.board = Squares
  /\ \A s \in Sentinels : isspace(pos.board[s])
  /\ \A s \in Squares :
       Playable(s) => pos.board[s] \in {"."} \cup Upper \cup Lower
  /\ \A s \in Sentinels :
       pos.board[s] = IF Rotated THEN prev.board[119 - s] ELSE prev.board[s]

\* A whirlwind of a Warrior standing on its back rank, next to the sentinels.
C7_Witness ==
  /\ Moved
  /\ lastMove[1] = lastMove[2]
  /\ lastMove[1] > 90
  /\ pos # prev

\* C8: the uppercase pieces are pieces of the army of the side to move, the
\* lowercase ones of the other army; wa is the army the side to move chose
\* and ba the other one; a first move grants the second sub-turn to exactly
\* the side that plays Two Kings, Black as well as White.
C8_Viewpoint ==
  /\ pos.wa = SideArmy(pos)
  /\ pos.ba = OtherArmy(pos)
  /\ \A s \in Squares :
       /\ isupper(pos.board[s]) => pos.board[s] \in ArmyLetters(SideArmy(pos))
       /\ islower(pos.board[s]) =>
            toupper(pos.board[s]) \in ArmyLetters(OtherArmy(pos))
  /\ (Moved /\ ~prev.second) => (pos.second <=> SideArmy(prev) = 5)
  /\ pos.second => SideArmy(pos) = 5

C8_Witness ==
  /\ Moved
  /\ pos.second
  /\ pos.color = 1
  /\ bArmy = 5
  /\ wArmy # 5

\* The rank a double-pushed pawn of the last mover has crossed and the back
\* rank of the last mover, as the position shows them: from the other side
\* after a rotation, from the mover's side while the second sub-turn is on.
CrossedRank == IF pos.second THEN 7 ELSE 4
BackRank == IF pos.second THEN 9 ELSE 2

\* C9: ep is 0 or a playable square of the rank the double-pushed pawn of the
\* last move crossed, kp is 0 or a playable back-rank square the castling
\* king of the last move crossed; a move that is no double push leaves ep 0,
\* a move that is no castling leaves kp 0.
C9_EpKp ==
  /\ pos.ep = 0 \/ (Playable(pos.ep) /\ pos.ep \div 10 = CrossedRank)
  /\ pos.kp = 0 \/ (Playable(pos.kp) /\ pos.kp \div 10 = BackRank)
  /\ Moved =>
       LET i == lastMove[1]
           j == lastMove[2]
           push == prev.board[i] = "P" /\ j - i = 2 * N
           castle == prev.board[i] = "K" /\ Abs(j - i) = 2
           crossed == (i + j) \div 2
           seen(s) == IF Rotated THEN 119 - s ELSE s
       IN  /\ pos.ep = IF push THEN seen(crossed) ELSE 0
           /\ pos.kp = IF castle THEN seen(crossed) ELSE 0
           /\ push => prev.board[crossed] = "."

\* A double push that answers a double push: the old ep is dropped, the new
\* one is set and shown from the other side.
C9_Witness ==
  /\ Moved
  /\ prev.ep # 0
  /\ pos.ep \in 41..48
  /\ pos.ep # 119 - prev.ep
  /\ pos.kp = 0

\* A Classic position ready for queenside castling.
CastleReady(p) ==
  /\ p.wa = 1
  /\ ~p.second
  /\ p.board[91] = "R"
  /\ p.board[95] = "K"
  /\ \A s \in 92..94 : p.board[s] = "."
  /\ p.wc = <<TRUE, TRUE>>

\* A castling move is emitted only while its castling right is true, and the
\* queenside one is emitted whenever the position is ready for it.
CastleEmission ==
  /\ CastleReady(pos) => <<95, 93>> \in Range(genMoves(pos, FALSE))
  /\ (\E s \in Squares : pos.board[s] = "K") =>
       \A m \in Range(genMoves(pos, FALSE)) :
         (pos.board[m[1]] = "K" /\ Abs(m[2] - m[1]) = 2) =>
            IF m[2] < m[1] THEN pos.wc[1] ELSE pos.wc[2]

\* C10 (as the code has it): the position returned by applying (95, 93) is
\* shown from the other side: the king is k on 26, the rook r on 25, square
\* 28 is empty and the castling rights of the side that castled, now bc, are
\* (False, False).
C10_CastleRotated ==
  /\ CastleEmission
  /\ (Moved /\ CastleReady(prev) /\ lastMove = <<95, 93>>) =>
       /\ pos.board[26] = "k"
       /\ pos.board[25] = "r"
       /\ pos.board[28] = "."
       /\ pos.bc = <<FALSE, FALSE>>

\* C10 (as stated): the position returned by applying (95, 93) has K on 93,
\* R on 94, square 91 empty and wc = (False, False).
C10_CastleInPlace ==
  /\ CastleEmission
  /\ (Moved /\ CastleReady(prev) /\ lastMove = <<95, 93>>) =>
       /\ pos.board[93] = "K"
       /\ pos.board[94] = "R"
       /\ pos.board[91] = "."
       /\ pos.wc = <<FALSE, FALSE>>

C10_Witness ==
  /\ Moved
  /\ CastleReady(prev)
  /\ lastMove = <<95, 93>>
  /\ pos.kp = 25

(***************************************************************************)
(* Properties of move generation and of applying a move.                   *)
(***************************************************************************)
\* The squares of the second rank, where the pawns start.
SecondRank == (A1 + N)..(H1 + N)

DoublePushes(p) ==
  {m \in Range(genMoves(p, FALSE)) : p.board[m[1]] = "P" /\ m[2] = m[1] + 2 * N}

\* C11: a pawn P on a second-rank square i with i-10 and i-20 empty gets both
\* (i, i-10) and (i, i-20); a double push is emitted for no pawn off the
\* second rank and for none whose square i-10 or i-20 is occupied; and the
\* rotated position a double push (i, i-20) leads to has ep = 119 - (i-10).
C11_PawnPushes ==
  /\ \A i \in SecondRank :
       (pos.board[i] = "P" /\ pos.board[i + N] = "." /\ pos.board[i + 2 * N] = ".")
         => /\ <<i, i + N>> \in Range(genMoves(pos, FALSE))
            /\ <<i, i + 2 * N>> \in Range(genMoves(pos, FALSE))
  /\ \A m \in DoublePushes(pos) :
       /\ m[1] \in SecondRank
       /\ pos.board[m[1] + N] = "."
       /\ pos.board[m[2]] = "."
  /\ (Moved /\ Rotated /\ prev.board[lastMove[1]] = "P"
        /\ lastMove[2] = lastMove[1] + 2 * N)
       => pos.ep = 119 - (lastMove[1] + N)

\* The pawn of 85 was pushed to 65 and the position was rotated, while the
\* side now to move has a pawn that left the second rank.
C11_Witness ==
  /\ Moved
  /\ Rotated
  /\ lastMove = <<85, 65>>
  /\ prev.board[85] = "P"
  /\ pos.ep = 119 - 75
  /\ \E i \in Squares \ SecondRank : pos.board[i] = "P"
  /\ DoublePushes(pos) # {}

\* The last move was a Tiger capture of an opposing piece.
TigerKill ==
  /\ Moved
  /\ prev.board[lastMove[1]] = "T"
  /\ islower(prev.board[lastMove[2]])

\* C12 (as the code has it): a Tiger capture (i, j) of an opposing piece
\* empties square j and moves nothing else, and the position returned is
\* shown from the other side: the Tiger is t on 119 - i, square 119 - j is
\* empty and every other square s holds, case swapped, what 119 - s held.
C12_TigerStays ==
  /\ \A m \in Range(genMoves(pos, FALSE)) :
       (pos.board[m[1]] = "T" /\ islower(pos.board[m[2]]))
         => move(pos, m).board = Reversed(put(pos.board, m[2], "."))
  /\ TigerKill =>
       /\ Rotated
       /\ pos.board[119 - lastMove[1]] = "t"
       /\ pos.board[119 - lastMove[2]] = "."
       /\ \A s \in Squares \ {119 - lastMove[2]} :
            pos.board[s] = swapcase(prev.board[119 - s])

\* C12 (as stated): in the position returned the Tiger is on square i,
\* square j is empty and no other square differs from the position moved in.
C12_TigerInPlace ==
  TigerKill =>
    /\ pos.board[lastMove[1]] = "T"
    /\ pos.board[lastMove[2]] = "."
    /\ \A s \in Squares \ {lastMove[2]} : pos.board[s] = prev.board[s]

C12_Witness ==
  /\ TigerKill
  /\ prev.board[lastMove[2]] = "p"
  /\ pos.board[119 - lastMove[1]] = "t"

\* The moves of a normal turn that take a piece to another square.
Steps(p) == {m \in Range(genMoves(p, FALSE)) : m[1] # m[2]}

\* C13: in a normal turn a move onto a square holding a friendly piece is
\* emitted only for a Wild Horse H or an Elephant E, also when the piece on
\* the target square has the letter of the mover.
C13_FriendlyBlocks ==
  \A m \in Steps(pos) :
    isupper(pos.board[m[2]]) => pos.board[m[1]] \in {"H", "E"}

\* C14: no move of a normal turn has a target square holding a royal (K, U,
\* W, C) of the side that moves.
C14_OwnRoyalSafe ==
  \A m \in Steps(pos) : pos.board[m[2]] \notin Royals

\* C15: no move genMoves emits for the side to move, in a normal turn or in
\* the second sub-turn of Two Kings, has a target square holding a Ghost g
\* of the other side.
C15_GhostSafe ==
  \A m \in Range(genMoves(pos, pos.second)) : pos.board[m[2]] # "g"

\* The squares a Reaper may teleport to: the ranks 3 to 8.
ReaperList == Range(directions["A"])

\* C17: in a normal turn a Reaper A on i gets the move (i, d) for exactly the
\* squares d of its list that are neither invulnerable nor held by a
\* friendly piece, whatever holds the squares listed before d.
C17_ReaperEach ==
  \A i \in Squares :
    pos.board[i] = "A" =>
      \A d \in ReaperList :
        <<i, d>> \in Range(genMoves(pos, FALSE))
          <=> (~isPieceInvulnerable(pos.board, i, d) /\ ~isupper(pos.board[d]))

\* No compass neighbour of square i holds a Warrior.
Alone(board, i) ==
  \A k \in DOMAIN Compass : At(board, i + Compass[k]) \notin Warriors

\* C16: for a Warrior (U or W) on i the whirlwind (i, i) is emitted if and
\* only if none of the 8 compass neighbours of i holds another Warrior, in
\* the normal turn and in the second sub-turn alike.
C16_Whirlwind ==
  \A i \in Squares :
    pos.board[i] \in Warriors =>
      (<<i, i>> \in Range(genMoves(pos, pos.second)) <=> Alone(pos.board, i))

\* The same for the normal turn only.
C16_NormalTurn ==
  \A i \in Squares :
    pos.board[i] \in Warriors =>
      (<<i, i>> \in Range(genMoves(pos, FALSE)) <=> Alone(pos.board, i))

\* The moves genMoves emits for the Elephants of the side to move.
ElephantMoves(p) ==
  {m \in Range(genMoves(p, p.second)) : p.board[m[1]] = "E"}

\* C23: every Elephant move genMoves emits has its target orthogonally
\* adjacent to its origin, at distance 1: the square before the target is the
\* Elephant's own, which the test of board[j-d] finds uppercase, and the
\* distance of the step is never above 4.
C23_ElephantOneStep ==
  \A m \in ElephantMoves(pos) :
    /\ m[2] - m[1] \in {N, E, S, W}
    /\ distance(m[1], m[2]) = 1
    /\ isupper(At(pos.board, m[2] - (m[2] - m[1])))
    /\ ~(distance(m[1], m[2]) > 4)

\* An Elephant steps onto an empty square with another empty square behind it.
C23_Witness ==
  \E m \in ElephantMoves(pos) :
    /\ pos.board[m[2]] = "."
    /\ At(pos.board, 2 * m[2] - m[1]) = "."

\* The castling rights of the side of colour c in the position p: wc belongs
\* to the side to move, bc to the other, and rotate swaps them.
Rights(p, c) == IF p.color = c THEN p.wc ELSE p.bc

\* C24: a castling right of a side that is false stays false for that side
\* in every later position, rotate's swap of wc and bc taken into account;
\* and a move of a side's King leaves that side without either right, so that
\* a right is still true only if the King has never moved.
C24_NeverRegained ==
  [][/\ \A c \in {0, 1}, k \in {1, 2} :
          ~Rights(pos, c)[k] => ~Rights(pos', c)[k]
     /\ (lastMove' # << >> /\ pos.board[lastMove'[1]] = "K")
          => Rights(pos', pos.color) = <<FALSE, FALSE>>]_vars

\* A King moves for the first time, after its rook left H1: the right already
\* lost stays lost and the other goes too, while the other side keeps both.
C24_Witness ==
  /\ lastMove # << >>
  /\ prev.board[lastMove[1]] = "K"
  /\ prev.wc = <<TRUE, FALSE>>
  /\ Rights(pos, prev.color) = <<FALSE, FALSE>>
  /\ Rights(pos, NotColor(prev.color)) = <<TRUE, TRUE>>

\* C24 (as stated): the same with every army's king, the royal pieces K, C, W
\* and U, in place of the Classic King.
C24_AnyKing ==
  [][/\ \A c \in {0, 1}, k \in {1, 2} :
          ~Rights(pos, c)[k] => ~Rights(pos', c)[k]
     /\ (/\ lastMove' # << >>
         /\ lastMove'[1] # lastMove'[2]
         /\ pos.board[lastMove'[1]] \in Royals)
          => Rights(pos', pos.color) = <<FALSE, FALSE>>]_vars

(***************************************************************************)
(* bound and search                                                        *)
(***************************************************************************)
TABLE_SIZE == 1000000

NodeBudget == 24
MaxSearches == 2

Entry(d, s, g, m) == [some |-> TRUE, depth |-> d, score |-> s, gamma |-> g, move |-> m]

\* What tp.get answers for a key the table does not hold (None).
NoEntry == [some |-> FALSE, depth |-> 0, score |-> 0, gamma |-> 0, move |-> << >>]

\* tp.get(key)
tpGet(table, key) ==
  IF \E k \in DOMAIN table : table[k].key = key
  THEN table[CHOOSE k \in DOMAIN table : table[k].key = key].entry
  ELSE NoEntry

\* tp[key] = entry: a key the table holds keeps its place in the order.
tpPut(table, key, entry) ==
  IF \E k \in DOMAIN table : table[k].key = key
  THEN [k \in DOMAIN table |->
          IF table[k].key = key THEN [key |-> key, entry |-> entry] ELSE table[k]]
  ELSE Append(table, [key |-> key, entry |-> entry])

\* len(tp)
tpLen == older + Len(tp)

\* sorted(pos.genMoves(pos.second), key=pos.value, reverse=True): the sort is
\* stable, moves of equal value keep the order genMoves gave them.
Placed(ms, rank) == [r \in DOMAIN ms |-> ms[CHOOSE k \in DOMAIN ms : rank[k] = r]]

Ranked(ms, v) ==
  Sole({Placed(ms, rank) :
          rank \in {[k \in DOMAIN ms |->
                       Cardinality({n \in DOMAIN ms :
                                      v[n] > v[k] \/ (v[n] = v[k] /\ n < k)}) + 1]
                    \o << >>}})

Valued(self, ms) ==
  Sole({Ranked(ms, v) : v \in {[k \in DOMAIN ms |-> value(self, ms[k])] \o << >>}})

SortedMoves(self) ==
  Sole({Valued(self, ms) : ms \in {genMoves(self, self.second)}})

\* The frame of a call bound(self, g, d) that has not run yet.
Frame(self, g, d) ==
  [pos |-> self, gamma |-> g, depth |-> d, at |-> "enter",
   wasSecond |-> self.second, entry |-> NoEntry, nullscore |-> 0,
   moves |-> << >>, k |-> 1, best |-> -3 * MATE_VALUE, bmove |-> << >>]

Top == stack[Len(stack)]
Callers == SubSeq(stack, 1, Len(stack) - 1)

\* The innermost call returns v to its caller.
Return(v) ==
  /\ stack' = Callers
  /\ ret' = v

\* The innermost call goes on as frame f.
Continue(f) ==
  /\ stack' = Append(Callers, f)
  /\ UNCHANGED ret

\* The innermost call goes on as frame f and calls bound(self, g, d).
Call(f, self, g, d) ==
  /\ stack' = Append(Append(Callers, f), Frame(self, g, d))
  /\ UNCHANGED ret

\* Lines 782-786: after the null move, the moves are generated and ordered.
WithMoves(f, nullscore) ==
  [f EXCEPT !.at = "loop", !.nullscore = nullscore, !.moves = SortedMoves(f.pos)]

Running == at = "bound" /\ stack # << >>

\* Lines 743-772: the node is counted, the table is looked up, a won or lost
\* position is returned, and the null move is searched (depth > 0) or the
\* position's score stands for it.
BoundEnter ==
  /\ Running
  /\ Top.at = "enter"
  /\ nodes' = nodes + 1
  /\ LET self == Top.pos
         entry == tpGet(tp, self)
         rebound == IF self.second THEN [self EXCEPT !.second = FALSE] ELSE self
         f == [Top EXCEPT !.pos = rebound, !.entry = entry, !.at = "null"]
     IN  IF /\ entry.some
            /\ entry.depth >= Top.depth
            /\ \/ entry.score < entry.gamma /\ entry.score < Top.gamma
               \/ entry.score >= entry.gamma /\ entry.score >= Top.gamma
         THEN Return(entry.score)
         ELSE IF Abs(self.score) >= MATE_VALUE THEN Return(self.score)
         ELSE IF Top.depth > 0
           THEN Call(f, rotate(rebound), 1 - Top.gamma, Top.depth - 3)
         ELSE IF rebound.score >= Top.gamma THEN Return(rebound.score)
         ELSE Continue(WithMoves(f, rebound.score))
  /\ UNCHANGED <<gameVars, tp, older, maxn, depth, lower, upper, gamma, score,
                 returned, at, err>>

\* Lines 766-776: the null move search has returned.
BoundAfterNull ==
  /\ Running
  /\ Top.at = "null"
  /\ LET nullscore == IF Top.wasSecond THEN ret ELSE -ret
     IN  IF nullscore >= Top.gamma THEN Return(nullscore)
         ELSE Continue(WithMoves(Top, nullscore))
  /\ UNCHANGED <<gameVars, tp, older, nodes, maxn, depth, lower, upper, gamma,
                 score, returned, at, err>>

\* Lines 786-798: the head of the loop over the ordered moves.
BoundNextMove ==
  /\ Running
  /\ Top.at = "loop"
  /\ IF /\ Top.k <= Len(Top.moves)
        /\ ~(Top.depth <= 0 /\ value(Top.pos, Top.moves[Top.k]) < 150)
     THEN Call([Top EXCEPT !.at = "child"], move(Top.pos, Top.moves[Top.k]),
               1 - Top.gamma, Top.depth - 1)
     ELSE Continue([Top EXCEPT !.at = "finish"])
  /\ UNCHANGED <<gameVars, tp, older, nodes, maxn, depth, lower, upper, gamma,
                 score, returned, at, err>>

\* Lines 793-805: the search of a move has returned.
BoundAfterMove ==
  /\ Running
  /\ Top.at = "child"
  /\ LET sc == IF Top.pos.second THEN ret ELSE -ret
         f == IF sc > Top.best
              THEN [Top EXCEPT !.best = sc, !.bmove = Top.moves[Top.k]]
              ELSE Top
     IN  IF sc >= Top.gamma THEN Continue([f EXCEPT !.at = "finish"])
         ELSE Continue([f EXCEPT !.at = "loop", !.k = Top.k + 1])
  /\ UNCHANGED <<gameVars, tp, older, nodes, maxn, depth, lower, upper, gamma,
                 score, returned, at, err>>

\* `best <= -MATE_VALUE is None` is a chained comparison: best <= -MATE_VALUE
\* and -MATE_VALUE is None, and no number is None.
IsNone(x) == FALSE

\* Lines 809-831: stand pat, the stalemate check, the store in the table and
\* its trimming.  tp.pop() of an OrderedDict takes a key: without one it
\* raises TypeError, which nothing catches, and the entry stays in the table.
BoundFinish ==
  /\ Running
  /\ Top.at = "finish"
  /\ LET f == Top
         best == IF /\ f.depth > 0
                    /\ f.best <= -MATE_VALUE /\ IsNone(-MATE_VALUE)
                    /\ f.nullscore > -MATE_VALUE
                 THEN 0 ELSE f.best
         stored == tpPut(tp, f.pos, Entry(f.depth, best, f.gamma, f.bmove))
     IN  IF f.depth <= 0 /\ f.best < f.nullscore
         THEN Return(f.nullscore) /\ UNCHANGED <<tp, at, err>>
         ELSE IF ~f.entry.some \/ (f.depth >= f.entry.depth /\ best >= f.gamma)
           THEN /\ tp' = stored
                /\ IF older + Len(stored) > TABLE_SIZE
                   THEN /\ err' = "TypeError"
                        /\ at' = "crashed"
                        /\ stack' = << >>
                        /\ UNCHANGED ret
                   ELSE Return(best) /\ UNCHANGED <<at, err>>
         ELSE Return(best) /\ UNCHANGED <<tp, at, err>>
  /\ UNCHANGED <<gameVars, older, nodes, maxn, depth, lower, upper, gamma,
                 score, returned>>

\* Lines 836-846: search is called; the first depth's window is opened.
SearchCall ==
  /\ at = "idle"
  /\ Len(returned) < MaxSearches
  /\ nodes' = 0
  /\ depth' = 1
  /\ lower' = -3 * MATE_VALUE
  /\ upper' = 3 * MATE_VALUE
  /\ at' = "mtd"
  /\ UNCHANGED <<gameVars, tp, older, maxn, gamma, score, stack, ret, returned, err>>

\* Lines 847-850: a step of the binary search calls bound.
MtdProbe ==
  /\ at = "mtd"
  /\ lower < upper - 3
  /\ gamma' = (lower + upper + 1) \div 2
  /\ stack' = <<Frame(pos, gamma', depth)>>
  /\ at' = "bound"
  /\ UNCHANGED <<gameVars, tp, older, nodes, maxn, depth, lower, upper, score,
                 ret, returned, err>>

\* Lines 850-854: bound has returned to search.
MtdNarrow ==
  /\ at = "bound"
  /\ stack = << >>
  /\ score' = ret
  /\ lower' = IF ret >= gamma THEN ret ELSE lower
  /\ upper' = IF ret < gamma THEN ret ELSE upper
  /\ at' = "mtd"
  /\ UNCHANGED <<gameVars, tp, older, nodes, maxn, depth, gamma, stack, ret,
                 returned, err>>

\* Line 860 without the node budget.
Deep_mateOnly == Abs(score) >= MATE_VALUE \/ depth = 98

\* The deepening stops (lines 858-861, and the end of range(1, 99)).
Deep == nodes >= maxn \/ Abs(score) >= MATE_VALUE \/ depth = 98

\* Lines 843-846: the next depth.
SearchDeepen ==
  /\ at = "mtd"
  /\ ~(lower < upper - 3)
  /\ ~Deep
  /\ depth' = depth + 1
  /\ lower' = -3 * MATE_VALUE
  /\ upper' = 3 * MATE_VALUE
  /\ UNCHANGED <<gameVars, tp, older, nodes, maxn, gamma, score, stack, ret,
                 returned, at, err>>

\* Lines 863-868: the move is retrieved from the table and returned.
SearchReturn ==
  /\ at = "mtd"
  /\ ~(lower < upper - 3)
  /\ Deep
  /\ returned' = Append(returned, [move |-> tpGet(tp, pos).move, score |-> score,
                                    nodes |-> nodes, depth |-> depth])
  /\ at' = "idle"
  /\ UNCHANGED <<gameVars, tp, older, nodes, maxn, depth, lower, upper, gamma,
                 score, stack, ret, err>>

\* The positions searched: the one the engine, playing Two Kings, gets after
\* White's first move, and the one it searches next, on its second sub-turn
\* (lines 986 and 998).
SecondSubTurn ==
  [w |-> 1, b |-> 5, spent |-> 1, line |-> << <<85, 65>>, <<81, 71>> >>]

\* A game of Nemesis against Animals that leaves the side to move, Animals,
\* its royal C alone on 94, with five moves that each lose it.
Stalemate ==
  [w |-> 2, b |-> 6, spent |-> 1, line |->
     << <<87, 76>>, <<91, 81>>, <<97, 78>>, <<92, 84>>, <<78, 97>>,
        <<98, 88>>, <<88, 87>>, <<97, 85>>, <<87, 76>>, <<84, 92>>,
        <<92, 71>>, <<94, 34>>, <<97, 85>>, <<85, 93>>, <<76, 75>>,
        <<83, 73>>, <<86, 75>>, <<82, 73>>, <<85, 97>>, <<92, 73>>,
        <<97, 76>>, <<73, 61>>, <<98, 58>>, <<96, 85>>, <<58, 56>>,
        <<93, 85>>, <<95, 85>>, <<86, 76>>, <<71, 63>>, <<87, 76>>,
        <<63, 51>>, <<85, 64>>, <<82, 72>>, <<64, 43>>, <<81, 72>>,
        <<43, 35>>, <<51, 43>>, <<95, 96>>, <<93, 84>>, <<96, 95>>,
        <<84, 62>>, <<95, 94>>, <<43, 51>> >>]

\* The positions searched, the node budget, and a table that is empty or
\* that earlier searches have filled up to TABLE_SIZE entries.
SearchRoots == {Openings[6], SecondSubTurn, Stalemate}

SearchInit ==
  /\ GameInit(SearchRoots)
  /\ tp = << >>
  /\ older \in {0, TABLE_SIZE}
  /\ nodes = 0
  /\ maxn = NodeBudget
  /\ depth = 0
  /\ lower = 0
  /\ upper = 0
  /\ gamma = 0
  /\ score = 0
  /\ stack = << >>
  /\ ret = 0
  /\ returned = << >>
  /\ at = "idle"
  /\ err = "none"

SearchNext ==
  \/ SearchCall
  \/ MtdProbe
  \/ MtdNarrow
  \/ SearchDeepen
  \/ SearchReturn
  \/ BoundEnter
  \/ BoundAfterNull
  \/ BoundNextMove
  \/ BoundAfterMove
  \/ BoundFinish

SearchSpec == SearchInit /\ [][SearchNext]_vars

\* The steps of search, and the steps of bound.
SearchStep == SearchCall \/ MtdProbe \/ MtdNarrow \/ SearchDeepen \/ SearchReturn
BoundStep ==
  BoundEnter \/ BoundAfterNull \/ BoundNextMove \/ BoundAfterMove \/ BoundFinish

\* The program is sequential: while a step of search or bound is possible,
\* the interpreter takes it.  This is weak fairness of both kinds of step;
\* for the steps of bound, ENABLED <<BoundStep>>_vars is written as Running,
\* the guard they share (BoundStepEnabled below states that the two agree).
SearchLive ==
  /\ SearchSpec
  /\ WF_vars(SearchStep)
  /\ []<>(~Running) \/ []<><<BoundStep>>_vars

BoundStepEnabled == Running <=> ENABLED <<BoundStep>>_vars

(***************************************************************************)
(* Properties of the search.                                               *)
(***************************************************************************)
\* C5: the transposition table never holds more than TABLE_SIZE entries: an
\* insertion that exceeds TABLE_SIZE is followed by the eviction of an entry
\* and bound returns normally.
C5_TableBounded ==
  /\ tpLen <= TABLE_SIZE
  /\ err = "none"

\* C6: two calls of search with the same position and the same maxn return
\* the same move, also when the second runs on the table the first filled.
C6_SameMove ==
  \A a, b \in DOMAIN returned : returned[a].move = returned[b].move

\* The frames of the calls of bound that have generated their moves.
Looping == {n \in DOMAIN stack : stack[n].at \in {"loop", "child", "finish"}}

\* The score line 793-798 should give the move just searched: the value the
\* child returned, negated unless the call was made on a second sub-turn.
ChildScore(f, r) == IF f.wasSecond THEN r ELSE -r

\* C18: a call of bound made on a position whose second flag is true
\* explores the moves of genMoves in second mode and takes each child's
\* score as returned; a call made on a position whose second flag is false
\* negates it.
C18_SignHandling ==
  /\ [](\A n \in Looping :
          stack[n].wasSecond =>
            Range(stack[n].moves) = Range(genMoves(stack[n].pos, TRUE)))
  /\ [][(Running /\ Top.at = "child") =>
          stack'[Len(stack)].best =
            IF ChildScore(Top, ret) > Top.best
            THEN ChildScore(Top, ret) ELSE Top.best]_vars

\* The moves explored are those of a normal turn of the same position.
C18_NormalMoves ==
  \A n \in Looping :
    Range(stack[n].moves) = Range(genMoves(stack[n].pos, FALSE))

\* The child's score is negated in every call.
C18_AlwaysNegated ==
  [][(Running /\ Top.at = "child") =>
       stack'[Len(stack)].best = IF -ret > Top.best THEN -ret ELSE Top.best]_vars

\* C20: an entry the table holds is replaced only by a result of at least
\* its depth whose best is at least gamma, so that the depth stored for a key
\* never decreases.
C20_Replacement ==
  [][\A k \in DOMAIN tp :
       tp'[k] # tp[k] =>
         /\ tp'[k].entry.depth >= tp[k].entry.depth
         /\ tp'[k].entry.score >= tp'[k].entry.gamma]_vars

\* The call of bound that ends its move loop met the stalemate test of line
\* 817 as it is meant: depth > 0, every move loses the king, passing does not.
Stalemated(f) ==
  /\ f.at = "finish"
  /\ f.depth > 0
  /\ f.best <= -MATE_VALUE
  /\ f.nullscore > -MATE_VALUE

\* C19: a call of bound that, at depth > 0, ends its move loop with
\* best <= -MATE_VALUE while nullscore > -MATE_VALUE returns 0 and stores 0
\* in the table.
C19_StalemateFallback ==
  [][(Running /\ Stalemated(Top)) =>
       /\ ret' = 0
       /\ tpGet(tp', Top.pos).some => tpGet(tp', Top.pos).score = 0]_vars

\* Values bound may answer a probe of the window (l, u): the ends of the
\* range of scores, and the values next to l, to gamma and to u.
Answers(l, u) ==
  {-3 * MATE_VALUE, l - 1, l, (l + u + 1) \div 2 - 1, (l + u + 1) \div 2,
   u, u + 1, 3 * MATE_VALUE}

\* Lines 849-854 for the answer r: the window after the probe.
Narrowed(l, u, r) ==
  [lower |-> IF r >= (l + u + 1) \div 2 THEN r ELSE l,
   upper |-> IF r < (l + u + 1) \div 2 THEN r ELSE u]

\* C21: every probe of the bisection strictly raises lower or strictly
\* lowers upper, whatever bound answers; the node budget and the mate test
\* are read only once the window of a depth is closed, the deepening stops
\* at the first depth after which nodes >= maxn or |score| >= MATE_VALUE and
\* never goes beyond depth 98; and a search that was called returns.
C21_Terminates ==
  /\ [](lower < upper - 3 =>
          \A r \in Answers(lower, upper) :
            \/ Narrowed(lower, upper, r).lower > lower
                 /\ Narrowed(lower, upper, r).upper = upper
            \/ Narrowed(lower, upper, r).upper < upper
                 /\ Narrowed(lower, upper, r).lower = lower)
  /\ [][/\ at = "bound" /\ at' = "mtd"
             => (lower' > lower /\ upper' = upper) \/ (upper' < upper /\ lower' = lower)
        /\ at = "mtd" /\ depth' # depth
             => /\ depth' = depth + 1
                /\ ~(lower < upper - 3)
                /\ nodes < maxn
                /\ Abs(score) < MATE_VALUE
        /\ returned' # returned
             => /\ ~(lower < upper - 3)
                /\ nodes >= maxn \/ Abs(score) >= MATE_VALUE \/ depth = 98]_vars
  /\ [](depth <= 98)
  /\ (at # "idle") ~> (at = "idle" \/ err # "none")

\* A search deepened once, closed the window of depth 2 and returned.
C21_Witness ==
  /\ at = "idle"
  /\ returned # << >>
  /\ returned[Len(returned)].depth = 2
  /\ nodes >= maxn
  /\ ~(lower < upper - 3)

\* The position a call of bound was made with: line 767 rebinds pos to a copy
\* that differs in second only, and the frame remembers what second was.
Called(f) == [f.pos EXCEPT !.second = f.wasSecond]

\* A store of bound puts its entry under the position bound was called with.
C22_KeyIsCalled ==
  [][(Running /\ Top.at = "finish" /\ tp' # tp) =>
       /\ tpGet(tp', Called(Top)).some
       /\ tpGet(tp', Called(Top)) = tpGet(tp', Top.pos)]_vars

\* A search of a second sub-turn position that stored a best move returns it.
C22_ReturnsStored ==
  (/\ at = "idle"
   /\ returned # << >>
   /\ pos.second
   /\ tpGet(tp, [pos EXCEPT !.second = FALSE]).move # << >>)
    => returned[Len(returned)].move # << >>

\* C22: whenever bound stores an entry, the key is the position bound was
\* called with, so that tp.get of that position finds the entry; after a
\* search of a position with second = TRUE that explored a move, search
\* returns the stored best move, not None.
C22_StoredKey == C22_KeyIsCalled /\ []C22_ReturnsStored
====
